---- MODULE Spec2Model ----
(***************************************************************************)
(* Redaction rule resolution of insights/client/collection_rules.py:      *)
(* InsightsUploadConf loads file-redaction.conf and                       *)
(* file-content-redaction.conf (YAML), falls back to remove.conf (INI),   *)
(* caches the resolved rule set in self.rm_conf and summarises it in      *)
(* create_report.                                                          *)
(*                                                                         *)
(* Python values are tagged records [t, v]:                                *)
(*   none  None                 str   a string, v = sequence of characters *)
(*   int   a non-string scalar  list  v = sequence of values               *)
(*   dict  v = function from key names to values                           *)
(* A rule file is [exists, mode, body].  The body of a YAML file is what   *)
(* yaml.safe_load yields for it (a value, or the tag "yamlerror" when it   *)
(* raises); the body of the INI file is what RawConfigParser yields        *)
(* (read() raising, sections(), items('remove')).                          *)
(* Record fields are written in the order TLC keeps them in.               *)
(***************************************************************************)
EXTENDS Integers, Sequences, FiniteSets, TLC

VARIABLES fs, config, rm_conf, using_new_format, last, report, rt, cf

vars == <<fs, config, rm_conf, using_new_format, last, report, rt, cf>>

---------------------------------------------------------------------------
(* Bounds *)

MaxListLen == 2

MaxValLen == 3

---------------------------------------------------------------------------
(* Python values *)

PyNone == [t |-> "none", v |-> <<>>]

PyStr(s) == [t |-> "str", v |-> s]

PyInt == [t |-> "int", v |-> <<>>]

PyList(items) == [t |-> "list", v |-> items]

PyDict(f) == [t |-> "dict", v |-> f]

EmptyMap == [k \in {} |-> PyNone]

Range(s) == {s[i] : i \in DOMAIN s}

\* Python truth value: None, '', [] and {} are false
Truthy(x) ==
  CASE x.t = "none" -> FALSE
    [] x.t = "str" -> x.v # <<>>
    [] x.t = "list" -> x.v # <<>>
    [] x.t = "dict" -> DOMAIN x.v # {}
    [] OTHER -> TRUE

\* dict.update: the keys of d2 overwrite those of d1
Update(d1, d2) ==
  [k \in (DOMAIN d1) \cup (DOMAIN d2) |-> IF k \in DOMAIN d2 THEN d2[k] ELSE d1[k]]

\* faulty variant: nothing is filtered out
Unfiltered(d) == d

\* faulty variant: a list holding only empty strings is filtered out as well
FilteredOfBlankLists(d) ==
  [k \in {j \in DOMAIN d : Truthy(d[j]) /\ ~(d[j].t = "list" /\ Range(d[j].v) = {[t |-> "str", v |-> <<>>]})}
     |-> d[k]]

\* dict((k, v) for k, v in rm_conf.items() if v)
Filtered(d) == [k \in {j \in DOMAIN d : Truthy(d[j])} |-> d[k]]

NoErr == [kind |-> "none", file |-> "", keys |-> {}]

Err(kind, file, keys) == [kind |-> kind, file |-> file, keys |-> keys]

---------------------------------------------------------------------------
(* Module constants and functions *)

\* faulty variant: components is a legacy key too
expected_keys_with_components == <<"commands", "files", "patterns", "keywords", "components">>

expected_keys == <<"commands", "files", "patterns", "keywords">>

RedactionKeys == <<"commands", "files", "components">>

ContentKeys == <<"patterns", "keywords">>

Mode0600 == 384

is_list_of_strings(data) ==
  \/ data.t = "none"
  \/ /\ data.t = "list"
     /\ \A i \in DOMAIN data.v : data.v[i].t = "str"

\* faulty variant: keys beside regex are not looked for
FormatOfKeyIgnoringExtraKeys(parsed_data, k) ==
  LET val == parsed_data.v[k] IN
  IF k = "patterns" /\ val.t = "dict"
  THEN IF "regex" \notin DOMAIN val.v THEN "patterns_without_regex"
       ELSE IF ~is_list_of_strings(val.v["regex"]) THEN "regex_not_list_of_strings"
       ELSE "none"
  ELSE IF ~is_list_of_strings(val) THEN "not_list_of_strings"
       ELSE "none"

\* the check of one expected key present in the document: the message kind
\* of its error, or "none"
FormatOfKey(parsed_data, k) ==
  LET val == parsed_data.v[k] IN
  IF k = "patterns" /\ val.t = "dict"
  THEN IF "regex" \notin DOMAIN val.v THEN "patterns_without_regex"
       ELSE IF Cardinality(DOMAIN val.v) > 1 THEN "patterns_unknown_keys"
       ELSE IF ~is_list_of_strings(val.v["regex"]) THEN "regex_not_list_of_strings"
       ELSE "none"
  ELSE IF ~is_list_of_strings(val) THEN "not_list_of_strings"
       ELSE "none"

\* for k in expected_keys: the first key whose value has the wrong shape
RECURSIVE FormatLoop(_, _, _, _)
FormatLoop(parsed_data, keys, i, filename) ==
  IF i > Len(keys) THEN [err |-> FALSE, msg |-> NoErr]
  ELSE IF keys[i] \in DOMAIN parsed_data.v /\ FormatOfKey(parsed_data, keys[i]) # "none"
       THEN [err |-> TRUE,
             msg |-> Err(FormatOfKey(parsed_data, keys[i]), filename, {keys[i]})]
       ELSE FormatLoop(parsed_data, keys, i + 1, filename)

correct_format(parsed_data, keys, filename) ==
  LET invalid_keys == (DOMAIN parsed_data.v) \ Range(keys) IN
  IF invalid_keys # {}
  THEN [err |-> TRUE, msg |-> Err("unknown_sections", filename, invalid_keys)]
  ELSE FormatLoop(parsed_data, keys, 1, filename)

\* yaml.safe_load of the file, None -> {}, anything but a dict is an error
load_yaml(file, filename) ==
  IF file.body.t = "yamlerror"
  THEN [err |-> Err("yaml_parse", filename, {}), status |-> "fatal", ret |-> PyNone]
  ELSE IF file.body.t = "none"
  THEN [err |-> NoErr, status |-> "ok", ret |-> PyDict(EmptyMap)]
  ELSE IF file.body.t # "dict"
  THEN [err |-> Err("yaml_not_dict", filename, {}), status |-> "fatal", ret |-> PyNone]
  ELSE [err |-> NoErr, status |-> "ok", ret |-> file.body]

\* TRUE when verify_permissions returns, FALSE when it raises
verify_permissions(file) == file.mode = Mode0600

---------------------------------------------------------------------------
(* Legacy value decoding *)

Whitespace == {" "}

\* value.strip()
RECURSIVE Strip(_)
Strip(s) ==
  IF s = <<>> THEN s
  ELSE IF Head(s) \in Whitespace THEN Strip(Tail(s))
  ELSE IF s[Len(s)] \in Whitespace THEN Strip(SubSeq(s, 1, Len(s) - 1))
  ELSE s

\* TRUE when decode('unicode-escape') / decode('string-escape') succeeds on
\* s[i..]: a backslash that ends the string raises
RECURSIVE EscapeOK(_, _)
EscapeOK(s, i) ==
  IF i > Len(s) THEN TRUE
  ELSE IF s[i] = "\\"
       THEN IF i = Len(s) THEN FALSE ELSE EscapeOK(s, i + 2)
       ELSE EscapeOK(s, i + 1)

\* the decoded text of s[i..]: \\ is a backslash, \n a newline ("NL"), an
\* unrecognised escape is left as it is
RECURSIVE Unescape(_, _)
Unescape(s, i) ==
  IF i > Len(s) THEN <<>>
  ELSE IF s[i] = "\\" /\ i < Len(s)
       THEN (CASE s[i + 1] = "\\" -> <<"\\">>
               [] s[i + 1] = "n" -> <<"NL">>
               [] OTHER -> <<"\\", s[i + 1]>>) \o Unescape(s, i + 2)
       ELSE <<s[i]>> \o Unescape(s, i + 1)

\* s[i..].split(','), cur being the piece read so far
RECURSIVE Split(_, _, _)
Split(s, i, cur) ==
  IF i > Len(s) THEN <<PyStr(cur)>>
  ELSE IF s[i] = "," THEN <<PyStr(cur)>> \o Split(s, i + 1, <<>>)
  ELSE Split(s, i + 1, Append(cur, s[i]))

\* value.strip().encode('utf-8').decode('unicode-escape').split(',')
DecodeValue(value) == PyList(Split(Unescape(Strip(value), 1), 1, <<>>))

---------------------------------------------------------------------------
(* InsightsUploadConf *)

\* for item, value in parsedconfig.items('remove'): the dict built, or the
\* first failure (unknown key, or a value that cannot be decoded)
RECURSIVE LegacyItems(_, _, _)
LegacyItems(items, i, acc) ==
  IF i > Len(items) THEN [err |-> NoErr, status |-> "ok", conf |-> acc]
  ELSE IF items[i][1] \notin Range(expected_keys)
       THEN [err |-> Err("unknown_key", "remove_file", {items[i][1]}), status |-> "fatal",
             conf |-> acc]
  ELSE IF ~EscapeOK(Strip(items[i][2]), 1)
       THEN [err |-> Err("decode", "remove_file", {items[i][1]}), status |-> "fatal",
             conf |-> acc]
  ELSE LegacyItems(items, i + 1,
                   Update(acc, [k \in {items[i][1]} |-> DecodeValue(items[i][2])]))

Outcome(status, ret, err, cache, unf, warned, parsed, consulted) ==
  [rm_conf |-> cache, using_new_format |-> unf, err |-> err, status |-> status,
   ret |-> ret, warned |-> warned, parsed |-> parsed,
   consulted |-> consulted]

\* faulty variant: self.rm_conf is assigned key by key, inside the loop
get_rm_conf_old_caching_each_key(files, cfg, cache) ==
  LET file == files.remove_file
      warned == IF verify_permissions(file) THEN {} ELSE {"remove_file"}
      loop == LegacyItems(file.body.items, 1, EmptyMap)
  IN
  IF ~file.exists
  THEN Outcome("ok", PyNone, NoErr, cache, FALSE, {}, {}, {"remove_file"})
  ELSE IF ~verify_permissions(file) /\ cfg.validate
  THEN Outcome("fatal", PyNone, Err("permissions", "remove_file", {}), cache, FALSE,
               {}, {}, {"remove_file"})
  ELSE IF file.body.parse_error
  THEN Outcome("fatal", PyNone, Err("ini_parse", "remove_file", {}), cache, FALSE,
               warned, {"remove_file"}, {"remove_file"})
  ELSE IF file.body.sections = <<>>
  THEN Outcome("ok", PyNone, NoErr, cache, FALSE, warned, {"remove_file"}, {"remove_file"})
  ELSE IF file.body.sections # <<"remove">>
  THEN Outcome("fatal", PyNone, Err("sections", "remove_file", {}), cache, FALSE,
               warned, {"remove_file"}, {"remove_file"})
  ELSE IF loop.status = "fatal"
  THEN Outcome("fatal", PyNone, loop.err, PyDict(loop.conf), FALSE,
               warned, {"remove_file"}, {"remove_file"})
  ELSE Outcome("ok", PyDict(loop.conf), NoErr, PyDict(loop.conf), FALSE,
               warned, {"remove_file"}, {"remove_file"})

get_rm_conf_old(files, cfg, cache) ==
  LET file == files.remove_file
      warned == IF verify_permissions(file) THEN {} ELSE {"remove_file"}
      loop == LegacyItems(file.body.items, 1, EmptyMap)
  IN
  IF ~file.exists
  THEN Outcome("ok", PyNone, NoErr, cache, FALSE, {}, {}, {"remove_file"})
  ELSE IF ~verify_permissions(file) /\ cfg.validate
  THEN Outcome("fatal", PyNone, Err("permissions", "remove_file", {}), cache, FALSE,
               {}, {}, {"remove_file"})
  ELSE IF file.body.parse_error
  THEN Outcome("fatal", PyNone, Err("ini_parse", "remove_file", {}), cache, FALSE,
               warned, {"remove_file"}, {"remove_file"})
  ELSE IF file.body.sections = <<>>
  THEN Outcome("ok", PyNone, NoErr, cache, FALSE, warned, {"remove_file"}, {"remove_file"})
  ELSE IF file.body.sections # <<"remove">>
  THEN Outcome("fatal", PyNone, Err("sections", "remove_file", {}), cache, FALSE,
               warned, {"remove_file"}, {"remove_file"})
  ELSE IF loop.status = "fatal"
  THEN Outcome("fatal", PyNone, loop.err, cache, FALSE,
               warned, {"remove_file"}, {"remove_file"})
  ELSE Outcome("ok", PyDict(loop.conf), NoErr, PyDict(loop.conf), FALSE,
               warned, {"remove_file"}, {"remove_file"})

\* faulty variant: a permission failure is raised whatever config.validate is
load_redaction_file_always_strict(files, cfg, fname) ==
  LET file == files[fname]
      loaded == load_yaml(file, fname)
      fmt == correct_format(loaded.ret,
                            IF fname = "redaction_file" THEN RedactionKeys ELSE ContentKeys,
                            fname)
      Result(status, ret, err, w, p) ==
        [err |-> err, status |-> status, ret |-> ret, warned |-> w, parsed |-> p]
  IN
  IF fname \notin {"redaction_file", "content_redaction_file"}
  THEN Result("ok", PyNone, NoErr, {}, {})
  ELSE IF ~file.exists
  THEN Result("ok", PyNone, NoErr, {}, {})
  ELSE IF ~verify_permissions(file)
  THEN Result("fatal", PyNone, Err("permissions", fname, {}), {}, {})
  ELSE IF loaded.status = "fatal"
  THEN Result("fatal", PyNone, loaded.err, {}, {fname})
  ELSE IF fmt.err
  THEN Result("fatal", PyNone, fmt.msg, {}, {fname})
  ELSE Result("ok", loaded.ret, NoErr, {}, {fname})

load_redaction_file(files, cfg, fname) ==
  LET file == files[fname]
      warned == IF verify_permissions(file) THEN {} ELSE {fname}
      loaded == load_yaml(file, fname)
      fmt == correct_format(loaded.ret,
                            IF fname = "redaction_file" THEN RedactionKeys ELSE ContentKeys,
                            fname)
      Result(status, ret, err, w, p) ==
        [err |-> err, status |-> status, ret |-> ret, warned |-> w, parsed |-> p]
  IN
  IF fname \notin {"redaction_file", "content_redaction_file"}
  THEN Result("ok", PyNone, NoErr, {}, {})
  ELSE IF ~file.exists
  THEN Result("ok", PyNone, NoErr, {}, {})
  ELSE IF ~verify_permissions(file) /\ cfg.validate
  THEN Result("fatal", PyNone, Err("permissions", fname, {}), {}, {})
  ELSE IF loaded.status = "fatal"
  THEN Result("fatal", PyNone, loaded.err, warned, {fname})
  ELSE IF fmt.err
  THEN Result("fatal", PyNone, fmt.msg, warned, {fname})
  ELSE Result("ok", loaded.ret, NoErr, warned, {fname})

\* faulty variant: the fallback is decided on the filtered rule set
get_rm_conf_fallback_after_filter(files, cfg, cache, unf) ==
  LET redact == load_redaction_file(files, cfg, "redaction_file")
      content == load_redaction_file(files, cfg, "content_redaction_file")
      new1 == IF Truthy(redact.ret) THEN Update(EmptyMap, redact.ret.v) ELSE EmptyMap
      new2 == IF Truthy(content.ret) THEN Update(new1, content.ret.v) ELSE new1
      filtered_rm_conf == PyDict(Filtered(new2))
      old == get_rm_conf_old(files, cfg, cache)
  IN
  IF redact.status = "fatal"
  THEN Outcome("fatal", PyNone, redact.err, cache, unf, redact.warned, redact.parsed,
               {"redaction_file"})
  ELSE IF content.status = "fatal"
  THEN Outcome("fatal", PyNone, content.err, cache, unf,
               redact.warned \cup content.warned, redact.parsed \cup content.parsed,
               {"redaction_file", "content_redaction_file"})
  ELSE IF ~Truthy(filtered_rm_conf)
  THEN [old EXCEPT !.warned = redact.warned \cup content.warned \cup @,
                   !.parsed = redact.parsed \cup content.parsed \cup @,
                   !.consulted = {"redaction_file", "content_redaction_file"} \cup @]
  ELSE Outcome("ok", filtered_rm_conf, NoErr, filtered_rm_conf, unf,
               redact.warned \cup content.warned, redact.parsed \cup content.parsed,
               {"redaction_file", "content_redaction_file"})

get_rm_conf(files, cfg, cache, unf) ==
  LET redact == load_redaction_file(files, cfg, "redaction_file")
      content == load_redaction_file(files, cfg, "content_redaction_file")
      new1 == IF Truthy(redact.ret) THEN Update(EmptyMap, redact.ret.v) ELSE EmptyMap
      new2 == IF Truthy(content.ret) THEN Update(new1, content.ret.v) ELSE new1
      filtered_rm_conf == PyDict(Filtered(new2))
      old == get_rm_conf_old(files, cfg, cache)
  IN
  IF redact.status = "fatal"
  THEN Outcome("fatal", PyNone, redact.err, cache, unf, redact.warned, redact.parsed,
               {"redaction_file"})
  ELSE IF content.status = "fatal"
  THEN Outcome("fatal", PyNone, content.err, cache, unf,
               redact.warned \cup content.warned, redact.parsed \cup content.parsed,
               {"redaction_file", "content_redaction_file"})
  ELSE IF ~Truthy(redact.ret) /\ ~Truthy(content.ret)
  THEN [old EXCEPT !.warned = redact.warned \cup content.warned \cup @,
                   !.parsed = redact.parsed \cup content.parsed \cup @,
                   !.consulted = {"redaction_file", "content_redaction_file"} \cup @]
  ELSE Outcome("ok", filtered_rm_conf, NoErr, filtered_rm_conf, unf,
               redact.warned \cup content.warned, redact.parsed \cup content.parsed,
               {"redaction_file", "content_redaction_file"})

\* length() of create_report raises for a value that has no len()
LengthRaises(lst) == lst.t \in {"none", "int"} \/ (lst.t = "dict" /\ Cardinality(DOMAIN lst.v) = 1)

length(lst) ==
  IF lst.t = "list" /\ Len(lst.v) = 1 /\ lst.v[1] = PyStr(<<>>) THEN 0
  ELSE IF lst.t = "dict" THEN Cardinality(DOMAIN lst.v)
  ELSE Len(lst.v)

\* the value create_report measures for a key of rm_conf
Measured(cache, key) ==
  IF key = "patterns" /\ cache.v[key].t = "dict"
  THEN (IF "regex" \in DOMAIN cache.v[key].v THEN cache.v[key].v["regex"] ELSE PyNone)
  ELSE cache.v[key]

NoReport ==
  [using_new_format |-> FALSE, status |-> "none", files |-> 0,
   obfuscate |-> FALSE, obfuscate_hostname |-> FALSE, commands |-> 0, components |-> 0, patterns |-> 0,
   keywords |-> 0, using_patterns_regex |-> FALSE]

create_report(cache, unf, cfg) ==
  LET counted == IF Truthy(cache) THEN DOMAIN cache.v ELSE {}
      num(key) == IF key \in counted THEN length(Measured(cache, key)) ELSE 0
  IN
  IF \E key \in counted \cap {"commands", "files", "components", "patterns", "keywords"} :
       LengthRaises(Measured(cache, key))
  THEN [NoReport EXCEPT !.status = "TypeError"]
  ELSE [using_new_format |-> unf, status |-> "ok",
        files |-> num("files"),
        obfuscate |-> cfg.obfuscate, obfuscate_hostname |-> cfg.obfuscate_hostname,
        commands |-> num("commands"), components |-> num("components"),
        patterns |-> num("patterns"), keywords |-> num("keywords"),
        using_patterns_regex |-> ("patterns" \in counted /\ cache.v["patterns"].t = "dict")]

---------------------------------------------------------------------------
(* Rule files *)

S(c) == PyStr(<<c>>)

YamlError == [t |-> "yamlerror", v |-> <<>>]

Ini(parse_error, sections, items) ==
  [t |-> "ini", items |-> items, parse_error |-> parse_error, sections |-> sections]

File(mode, body) == [body |-> body, mode |-> mode, exists |-> TRUE]

AbsentYaml == [body |-> PyNone, mode |-> 0, exists |-> FALSE]

AbsentIni == [body |-> Ini(FALSE, <<>>, <<>>), mode |-> 0, exists |-> FALSE]

Modes == {Mode0600, 420}

D1(k, x) == PyDict([j \in {k} |-> x])

D2(k1, x1, k2, x2) == PyDict([j \in {k1, k2} |-> IF j = k1 THEN x1 ELSE x2])

RedactBodies ==
  { YamlError, PyNone,
    D1("commands", PyList(<<>>)),
    D1("commands", PyList(<<S("c"), S("d")>>)),
    D2("files", PyNone, "components", PyList(<<S("c")>>)),
    D1("bogus", PyList(<<S("c")>>)) }

ContentBodies ==
  { PyList(<<S("c")>>), PyDict(EmptyMap),
    D1("patterns", D1("regex", PyList(<<S("p")>>))),
    D1("patterns", D1("regex", PyNone)),
    D2("patterns", PyList(<<S("c")>>), "keywords", PyList(<<PyStr(<<>>)>>)),
    D1("keywords", S("c")) }

LegacyBodies ==
  { Ini(TRUE, <<>>, <<>>), Ini(FALSE, <<>>, <<>>),
    Ini(FALSE, <<"remove", "extra">>, <<>>),
    Ini(FALSE, <<"remove">>, << <<"commands", <<"c", ",", "d">> >> >>),
    Ini(FALSE, <<"remove">>, << <<"files", <<>> >> >>),
    Ini(FALSE, <<"remove">>, << <<"commands", <<"c">> >>, <<"bogus", <<"d">> >> >>),
    Ini(FALSE, <<"remove">>, << <<"components", <<"c">> >> >>) }

FileNames == {"remove_file", "redaction_file", "content_redaction_file"}

---------------------------------------------------------------------------
(* State machine *)

NoCall ==
  [err |-> NoErr, status |-> "none", ret |-> PyNone, warned |-> {}, parsed |-> {},
   consulted |-> {}, pre |-> PyNone, pre_unf |-> TRUE]

NoRT == [t |-> "nort", v |-> <<>>]

NoCF == [keys |-> <<>>, doc |-> PyNone, done |-> FALSE, out |-> [err |-> FALSE, msg |-> NoErr]]

\* InsightsUploadConf(config): no rule set cached, new format assumed
Constructed ==
  /\ rm_conf = PyNone
  /\ using_new_format = TRUE
  /\ last = NoCall
  /\ report = NoReport
  /\ rt = NoRT

Init ==
  /\ fs \in [remove_file : {AbsentIni} \cup {File(m, b) : m \in Modes, b \in LegacyBodies},
             redaction_file : {AbsentYaml} \cup {File(m, b) : m \in Modes, b \in RedactBodies},
             content_redaction_file :
               {AbsentYaml} \cup {File(m, b) : m \in Modes, b \in ContentBodies}]
  /\ config \in [validate : BOOLEAN, obfuscate : {FALSE}, obfuscate_hostname : {FALSE}]
  /\ Constructed
  /\ cf = NoCF

\* a call of get_rm_conf
Resolve ==
  LET o == get_rm_conf(fs, config, rm_conf, using_new_format) IN
  /\ rm_conf' = o.rm_conf
  /\ using_new_format' = o.using_new_format
  /\ last' = [err |-> o.err, status |-> o.status, ret |-> o.ret, warned |-> o.warned,
              parsed |-> o.parsed, consulted |-> o.consulted, pre |-> rm_conf,
              pre_unf |-> using_new_format]
  /\ report' = NoReport
  /\ UNCHANGED <<fs, config, rt, cf>>

\* a call of create_report
CreateReport ==
  /\ report' = create_report(rm_conf, using_new_format, config)
  /\ UNCHANGED <<fs, config, rm_conf, using_new_format, last, rt, cf>>

\* the operator deletes a rule file between two calls
RemoveFile(f) ==
  /\ fs[f].exists
  /\ fs' = [fs EXCEPT ![f] = IF f = "remove_file" THEN AbsentIni ELSE AbsentYaml]
  /\ last' = NoCall
  /\ rt' = NoRT
  /\ UNCHANGED <<config, rm_conf, using_new_format, report, cf>>

\* the operator rewrites the content rule file between two calls
WriteFile(f, file) ==
  /\ fs[f] # file
  /\ fs' = [fs EXCEPT ![f] = file]
  /\ last' = NoCall
  /\ rt' = NoRT
  /\ UNCHANGED <<config, rm_conf, using_new_format, report, cf>>

Restrict(d, keys) == [k \in (DOMAIN d) \cap keys |-> d[k]]

\* the rule set the last call returned is written back in the structured
\* format: commands/files/components to one file, patterns/keywords to the other
Reserialize ==
  /\ last.status = "ok"
  /\ last.ret.t = "dict"
  /\ fs' = [fs EXCEPT
              !.redaction_file =
                 File(Mode0600, PyDict(Restrict(last.ret.v, Range(RedactionKeys)))),
              !.content_redaction_file =
                 File(Mode0600, PyDict(Restrict(last.ret.v, Range(ContentKeys))))]
  /\ rt' = last.ret
  /\ last' = NoCall
  /\ UNCHANGED <<config, rm_conf, using_new_format, report, cf>>

Next ==
  \/ Resolve
  \/ CreateReport
  \/ \E f \in FileNames : RemoveFile(f)
  \/ Reserialize
  \/ \E m \in Modes, b \in ContentBodies : WriteFile("content_redaction_file", File(m, b))

Spec == Init /\ [][Next]_vars

---------------------------------------------------------------------------
(* The legacy loader on bounded remove.conf files *)

LegacyAlphabet == {"c", ",", "\\", "n", " "}

\* the values RawConfigParser hands out carry no leading or trailing blank
RawValues ==
  {s \in UNION {[1..n -> LegacyAlphabet] : n \in 0..MaxValLen} : Strip(s) = s}

LegacyKeyInputs == {"commands", "files", "patterns", "keywords", "components", "bogus"}

LegacyItemInputs ==
  LET rich == {<<k, x>> : k \in LegacyKeyInputs, x \in RawValues}
      plain == {<<k, <<"d">> >> : k \in {"files", "bogus"}}
      pairs == {p \in rich \X plain : p[1][1] # p[2][1]}
  IN {<<a>> : a \in rich}
       \cup {<<p[1], p[2]>> : p \in pairs}
       \cup {<<p[2], p[1]>> : p \in pairs}

InitLegacy ==
  /\ fs \in [remove_file : {File(m, Ini(FALSE, <<"remove">>, items)) :
                               m \in Modes, items \in LegacyItemInputs},
             redaction_file : {AbsentYaml},
             content_redaction_file : {AbsentYaml}]
  /\ config = [validate |-> FALSE, obfuscate |-> FALSE, obfuscate_hostname |-> FALSE]
  /\ Constructed
  /\ cf = NoCF

NextLegacy == Resolve \/ CreateReport

SpecLegacy == InitLegacy /\ [][NextLegacy]_vars

---------------------------------------------------------------------------
(* correct_format on bounded documents *)

ItemInputs == {S("c"), PyStr(<<>>), PyInt}

ListInputs == {PyList(l) : l \in UNION {[1..n -> ItemInputs] : n \in 0..MaxListLen}}

RegexInputs == {PyNone, S("c"), PyList(<<>>), PyList(<<S("c")>>), PyList(<<PyInt>>)}

ValueInputs ==
  {PyNone, S("c"), PyInt, PyDict(EmptyMap)}
    \cup ListInputs
    \cup {D1("regex", x) : x \in RegexInputs}
    \cup {D1("other", x) : x \in RegexInputs}
    \cup {D2("regex", x, "other", PyList(<<S("c")>>)) : x \in RegexInputs}

DocKeyInputs == {"commands", "components", "patterns", "keywords", "bogus"}

DocInputs ==
  {PyDict(EmptyMap)}
    \cup {D1(k, x) : k \in DocKeyInputs, x \in ValueInputs}
    \cup {D2(k1, x1, k2, x2) : k1 \in {"commands", "patterns", "bogus"},
                               k2 \in {"components", "keywords", "other"},
                               x1 \in ValueInputs, x2 \in {PyNone, S("c"), PyList(<<S("c")>>)}}

InitFormat ==
  /\ cf \in {[keys |-> ks, doc |-> d, done |-> FALSE, out |-> NoCF.out] :
               d \in DocInputs, ks \in {RedactionKeys, ContentKeys}}
  /\ fs = [remove_file |-> AbsentIni, redaction_file |-> AbsentYaml,
           content_redaction_file |-> AbsentYaml]
  /\ config = [validate |-> FALSE, obfuscate |-> FALSE, obfuscate_hostname |-> FALSE]
  /\ Constructed

\* a call of correct_format(doc, keys, name)
CorrectFormat ==
  /\ ~cf.done
  /\ cf' = [cf EXCEPT !.done = TRUE, !.out = correct_format(cf.doc, cf.keys, "redaction_file")]
  /\ UNCHANGED <<fs, config, rm_conf, using_new_format, last, report, rt>>

NextFormat == CorrectFormat

SpecFormat == InitFormat /\ [][NextFormat]_vars

---------------------------------------------------------------------------
(* Properties of get_rm_conf *)

Called == last.status # "none"

Categories == {"commands", "files", "patterns", "keywords", "components"}

\* the document of a structured file, as a mapping (empty when there is none)
DocOf(f) ==
  IF fs[f].exists /\ fs[f].body.t = "dict" THEN fs[f].body.v ELSE EmptyMap

\* the file is absent or an empty document
EmptyFragment(f) ==
  \/ ~fs[f].exists
  \/ fs[f].body.t = "none"
  \/ fs[f].body.t = "dict" /\ DOMAIN fs[f].body.v = {}

StructuredPermissionFailure ==
  /\ last.status = "fatal"
  /\ last.err.kind = "permissions"
  /\ last.err.file # "remove_file"

\* C1: the legacy loader is consulted exactly when both structured
\* fragments are empty; when a structured file holds a non-empty document
\* the result of a completed call is the filtered union of the two documents
\* and remove.conf is not read, whatever its state
C1_LegacyOnlyWhenStructuredEmpty ==
  Called =>
    LET bothEmpty == EmptyFragment("redaction_file") /\ EmptyFragment("content_redaction_file")
    IN /\ "remove_file" \in last.consulted => bothEmpty
       /\ (bothEmpty /\ ~StructuredPermissionFailure) => "remove_file" \in last.consulted
       /\ (last.status = "ok" /\ ~bothEmpty) =>
            /\ "remove_file" \notin last.consulted \cup last.parsed \cup last.warned
            /\ last.ret.t = "dict"
            /\ \A k \in Categories :
                 LET doc == Update(DocOf("redaction_file"), DocOf("content_redaction_file"))
                 IN IF k \in DOMAIN doc /\ Truthy(doc[k])
                    THEN k \in DOMAIN last.ret.v /\ last.ret.v[k] = doc[k]
                    ELSE k \notin DOMAIN last.ret.v

C1_Witness ==
  /\ last.status = "ok"
  /\ fs.remove_file.exists
  /\ fs.remove_file.body.parse_error
  /\ "remove_file" \notin last.consulted
  /\ last.ret = PyDict([k \in {"commands", "patterns"} |->
                         IF k = "commands" THEN PyList(<<S("c"), S("d")>>)
                         ELSE D1("regex", PyList(<<S("p")>>))])

\* the same rule files, each with mode 0600
Fixed600(files) ==
  [f \in FileNames |-> IF files[f].exists THEN [files[f] EXCEPT !.mode = Mode0600]
                       ELSE files[f]]

\* C3: a consulted file whose mode is not 0600 is, without config.validate,
\* warned about and loaded with the result the same file at mode 0600 gives;
\* with config.validate the call fails on its permissions before parsing it
C3_PermissionFailureByMode ==
  Called =>
    \A f \in last.consulted :
      (fs[f].exists /\ fs[f].mode # Mode0600) =>
        IF config.validate
        THEN /\ last.status = "fatal"
             /\ last.err = Err("permissions", f, {})
             /\ f \notin last.parsed
             /\ last.ret = PyNone
        ELSE /\ f \in last.warned
             /\ f \in last.parsed
             /\ LET o == get_rm_conf(Fixed600(fs), config, last.pre, last.pre_unf)
                IN /\ o.status = last.status
                   /\ o.ret = last.ret
                   /\ o.err = last.err
                   /\ o.rm_conf = rm_conf
                   /\ o.warned = {}

C3_Witness ==
  /\ last.status = "ok"
  /\ ~config.validate
  /\ fs.redaction_file.exists
  /\ fs.redaction_file.mode # Mode0600
  /\ fs.content_redaction_file.exists
  /\ fs.content_redaction_file.mode # Mode0600
  /\ last.warned = {"redaction_file", "content_redaction_file"}
  /\ "commands" \in DOMAIN last.ret.v
  /\ "patterns" \in DOMAIN last.ret.v

\* C4: a call that ends in a fatal error returns nothing and leaves the
\* cached rule set as it was before the call
C4_FatalLeavesCacheUntouched ==
  last.status = "fatal" => (rm_conf = last.pre /\ last.ret = PyNone)

C4_Witness ==
  /\ last.status = "fatal"
  /\ last.err = Err("unknown_key", "remove_file", {"bogus"})
  /\ Truthy(last.pre)
  /\ rm_conf = last.pre

IsCanonical(x) ==
  x.t = "dict" => \A k \in DOMAIN x.v : k \in Categories /\ Truthy(x.v[k])

\* C5: the rule set returned and the rule set cached hold only recognised
\* categories, none of them with an empty or false value
C5_NoFalsyCategory ==
  /\ last.status = "ok" => IsCanonical(last.ret)
  /\ IsCanonical(rm_conf)

C5_Witness ==
  /\ last.status = "ok"
  /\ "files" \in DOMAIN DocOf("redaction_file")
  /\ ~Truthy(DocOf("redaction_file")["files"])
  /\ last.ret.t = "dict"
  /\ DOMAIN last.ret.v = {"components"}
  /\ rm_conf = last.ret

\* equal rule sets, None and the empty mapping both being the empty rule set
SameRuleSet(x, y) == x = y \/ (~Truthy(x) /\ ~Truthy(y))

\* C2: a call that finds no structured rules and no legacy content (no
\* remove.conf, or one without sections) returns an empty rule set and
\* leaves using_new_format true
C2_NewFormatKeptWithoutLegacyContent ==
  ( /\ last.status = "ok"
    /\ last.pre_unf
    /\ "remove_file" \in last.consulted
    /\ \/ ~fs.remove_file.exists
       \/ ~fs.remove_file.body.parse_error /\ fs.remove_file.body.sections = <<>> )
  => (~Truthy(last.ret) /\ using_new_format)

\* the number of entries create_report is to give for a category
Entries(key) ==
  IF rm_conf.t = "dict" /\ key \in DOMAIN rm_conf.v
  THEN LET x == rm_conf.v[key]
           lst == IF key = "patterns" /\ x.t = "dict" THEN x.v["regex"] ELSE x
       IN IF lst.v = <<PyStr(<<>>)>> THEN 0 ELSE Len(lst.v)
  ELSE 0

\* C7: for every cached rule set create_report returns a report whose
\* counts are the numbers of entries of the categories ([''] counting as
\* none, patterns counted under regex when it is a mapping) and whose
\* using_patterns_regex tells whether patterns is a mapping
C7_ReportCountsEntries ==
  report.status # "none" =>
    /\ report.status = "ok"
    /\ report.commands = Entries("commands")
    /\ report.files = Entries("files")
    /\ report.components = Entries("components")
    /\ report.keywords = Entries("keywords")
    /\ report.patterns = Entries("patterns")
    /\ report.using_patterns_regex =
         (rm_conf.t = "dict" /\ "patterns" \in DOMAIN rm_conf.v
            /\ rm_conf.v["patterns"].t = "dict")

\* C9 as stated: every rule set a call returned, written back in the
\* structured format and resolved again, comes back unchanged
C9_RoundTripAnyRuleSet ==
  (rt # NoRT /\ Called) => (last.status = "ok" /\ SameRuleSet(last.ret, rt))

\* C9 amended: every non-empty rule set a call returned, written back in
\* the structured format and resolved again, comes back unchanged
C9_RoundTripNonEmptyRuleSet ==
  (rt # NoRT /\ Truthy(rt) /\ Called) => (last.status = "ok" /\ last.ret = rt)

C9_Witness ==
  /\ Truthy(rt)
  /\ last.status = "ok"
  /\ last.ret = rt
  /\ ~using_new_format
  /\ rt = D1("commands", PyList(<<S("c"), S("d")>>))
  /\ fs.remove_file.exists
  /\ "remove_file" \notin last.consulted

\* C10: after a call that completes, the cached rule set is the one the
\* call returned
C10_CacheIsLastResult ==
  last.status = "ok" => SameRuleSet(rm_conf, last.ret)

---------------------------------------------------------------------------
(* Properties of correct_format *)

ListOfStrings(x) == x.t = "list" /\ \A i \in DOMAIN x.v : x.v[i].t = "str"

\* a value the schema allows under key k
AllowedValue(k, x) ==
  \/ x.t = "none"
  \/ ListOfStrings(x)
  \/ /\ k = "patterns"
     /\ x.t = "dict"
     /\ DOMAIN x.v = {"regex"}
     /\ (x.v["regex"].t = "none" \/ ListOfStrings(x.v["regex"]))

\* C6: correct_format reports an error exactly when the document has a key
\* outside the expected ones, all of which it then names, or an expected key
\* whose value is not None, a list of strings or, under patterns, a mapping
\* of regex alone to None or a list of strings
C6_FormatErrorIffSchemaBroken ==
  cf.done =>
    LET unknown == (DOMAIN cf.doc.v) \ Range(cf.keys)
        broken == \E k \in Range(cf.keys) \cap DOMAIN cf.doc.v : ~AllowedValue(k, cf.doc.v[k])
    IN /\ cf.out.err <=> (unknown # {} \/ broken)
       /\ unknown # {} => (cf.out.msg.kind = "unknown_sections" /\ cf.out.msg.keys = unknown)
       /\ ~cf.out.err => cf.out.msg = NoErr

C6_Witness ==
  /\ cf.done
  /\ cf.keys = ContentKeys
  /\ cf.doc = D1("patterns", D2("regex", PyList(<<S("c")>>), "other", PyList(<<S("c")>>)))
  /\ cf.out.err
  /\ cf.out.msg.kind = "patterns_unknown_keys"

---------------------------------------------------------------------------
(* Properties of get_rm_conf_old *)

\* remove.conf was read, has the one section remove, and every value in it
\* has well-formed escapes
LegacyRead ==
  /\ Called
  /\ "remove_file" \in last.parsed
  /\ ~fs.remove_file.body.parse_error
  /\ fs.remove_file.body.sections = <<"remove">>
  /\ \A i \in DOMAIN fs.remove_file.body.items :
       EscapeOK(Strip(fs.remove_file.body.items[i][2]), 1)

LegacyKeys == {fs.remove_file.body.items[i][1] : i \in DOMAIN fs.remove_file.body.items}

RECURSIVE Joined(_)
Joined(pieces) ==
  IF Len(pieces) = 1 THEN pieces[1].v
  ELSE pieces[1].v \o <<",">> \o Joined(Tail(pieces))

\* lst is the comma-split of text
IsSplitOf(lst, text) ==
  /\ lst.t = "list"
  /\ Len(lst.v) >= 1
  /\ \A i \in DOMAIN lst.v : lst.v[i].t = "str" /\ "," \notin Range(lst.v[i].v)
  /\ Joined(lst.v) = text

LegacyLoads(accepted) ==
  LegacyRead =>
    LET items == fs.remove_file.body.items IN
    /\ last.status = "ok" <=> LegacyKeys \subseteq accepted
    /\ last.status = "ok" =>
         /\ ~using_new_format
         /\ last.ret.t = "dict"
         /\ DOMAIN last.ret.v = LegacyKeys
         /\ \A i \in DOMAIN items :
              IsSplitOf(last.ret.v[items[i][1]], Unescape(Strip(items[i][2]), 1))
    /\ last.status = "fatal" =>
         \E i \in DOMAIN items :
            /\ items[i][1] \notin accepted
            /\ \A j \in 1..(i - 1) : items[j][1] \in accepted
            /\ last.err = Err("unknown_key", "remove_file", {items[i][1]})
    /\ \A i \in DOMAIN items :
         /\ items[i][2] = <<"\\", "n">> => Unescape(Strip(items[i][2]), 1) = <<"NL">>
         /\ items[i][2] = <<"\\", "\\">> => Unescape(Strip(items[i][2]), 1) = <<"\\">>
         /\ items[i][2] = <<"\\", ",">> => Unescape(Strip(items[i][2]), 1) = <<"\\", ",">>

\* C8 as stated: the legacy loader accepts a key exactly when it is one of
\* the five categories, maps it to the comma-split of its unescaped value,
\* and fails on any other key, naming it
C8_LegacyAcceptsFiveCategories == LegacyLoads(Categories)

\* C8 amended: the legacy loader accepts a key exactly when it is one of
\* commands, files, patterns, keywords (not components), maps it to the
\* comma-split of its unescaped value, and fails on any other key, naming
\* the first such key
C8_LegacyAcceptsFourCategories ==
  LegacyLoads({"commands", "files", "patterns", "keywords"})

C8_Witness ==
  /\ last.status = "ok"
  /\ fs.remove_file.body.items = << <<"commands", <<"c", ",", "n">> >> >>
  /\ last.ret = D1("commands", PyList(<<S("c"), S("n")>>))
  /\ rm_conf = last.ret
  /\ ~using_new_format

====
